---- MODULE Spec2Model ----
(***************************************************************************)
(* A model of data_diff/utils.py: the range splitter split_space, the      *)
(* alphanumeric codec and the ArithAlphanumeric / ArithUUID keys, the      *)
(* product-order Vector and the CaseInsensitiveDict.                        *)
(*                                                                         *)
(* A Python str is a sequence of one-character strings.  A call's outcome  *)
(* is a record [err, val]: err = "None" and val the returned value, or err *)
(* the name of the exception raised.                                        *)
(***************************************************************************)
EXTENDS Integers, Sequences, FiniteSets, TLC

VARIABLES
    pc,       \* position of the calling code: "start", then one value per call made
    op,       \* the function or method the run exercises
    args,     \* the arguments of the call(s), a record
    result,   \* outcome of the first call
    result2,  \* outcome of the follow-up call(s)
    dict,     \* CaseInsensitiveDict._dict: lower-cased name -> <<key, value>>
    first     \* history: lower-cased name -> casing of its first insertion
              \* since the name was last absent

vars == <<pc, op, args, result, result2, dict, first>>

----------------------------------------------------------------------------
(* Bounds of the model *)

\* integers start, end of direct split_space calls range over MinInt..MaxInt
MaxInt == 11
MinInt == 0 - 2
\* requested checkpoint counts range over 0..MaxCount
MaxCount == 4
\* alphanumeric strings have at most MaxLen characters
MaxLen == 2
\* the characters the alphanumeric inputs are drawn from
Chars == {" ", "-", "0", "a", "z"}
\* UUID integers and offsets lie within MaxOffset of 0, 2^127 or 2^128
MaxOffset == 2
\* Vector arity and component values
MaxArity == 2
VecVals == {1, 2, 5}
\* CaseInsensitiveDict: length of the initial item list, values stored
MaxInitial == 2
MaxValue == 1

----------------------------------------------------------------------------
(* Outcomes *)

Ok(v) == [err |-> "None", val |-> v]
Raise(e) == [err |-> e, val |-> <<>>]
NoResult == [err |-> "NotCalled", val |-> <<>>]
IsOk(r) == r.err = "None"

Min(a, b) == IF a < b THEN a ELSE b
Max(a, b) == IF a > b THEN a ELSE b

\* all sequences over S of length 0..n
SeqsUpTo(S, n) == UNION {[1..k -> S] : k \in 0..n}

----------------------------------------------------------------------------
(* Python built-ins used by the code *)

\* list(range(a, b, step)) for step > 0
RECURSIVE PyRange(_, _, _)
PyRange(a, b, step) ==
    IF a < b THEN <<a>> \o PyRange(a + step, b, step) ELSE <<>>

\* seq[lo:hi] for 0 <= lo <= hi (indices clamp to the length)
PySlice(seq, lo, hi) == SubSeq(seq, Min(lo, Len(seq)) + 1, Min(hi, Len(seq)))

\* seq[::-1]
PyReversed(seq) == [i \in 1..Len(seq) |-> seq[Len(seq) + 1 - i]]

\* str.ljust(width): pad on the right with spaces
RECURSIVE ljust(_, _)
ljust(s, width) == IF Len(s) < width THEN ljust(s \o <<" ">>, width) ELSE s

----------------------------------------------------------------------------
(* split_space *)

split_space_nocheck(start, end, count) ==
    LET size == end - start
    IN  Ok(PySlice(PyRange(start, end, (size + 1) \div (count + 1)), 1, count + 1))

split_space_step_ceil(start, end, count) ==
    LET size == end - start
    IN  IF ~(count <= size)
        THEN Raise("AssertionError")
        ELSE Ok(PySlice(PyRange(start, end, (size + 1 + count) \div (count + 1)), 1, count + 1))

split_space_from_zero(start, end, count) ==
    LET size == end - start
    IN  IF ~(count <= size)
        THEN Raise("AssertionError")
        ELSE Ok(PySlice(PyRange(start, end, (size + 1) \div (count + 1)), 0, count))

\* split_space(start, end, count), for count >= 0
split_space(start, end, count) ==
    LET size == end - start
    IN  IF ~(count <= size)
        THEN Raise("AssertionError")
        ELSE Ok(PySlice(PyRange(start, end, (size + 1) \div (count + 1)), 1, count + 1))

----------------------------------------------------------------------------
(* Alphanumerics: the codec *)

string_digits == <<"0", "1", "2", "3", "4", "5", "6", "7", "8", "9">>
string_ascii_uppercase ==
    <<"A", "B", "C", "D", "E", "F", "G", "H", "I", "J", "K", "L", "M",
      "N", "O", "P", "Q", "R", "S", "T", "U", "V", "W", "X", "Y", "Z">>
string_ascii_lowercase ==
    <<"a", "b", "c", "d", "e", "f", "g", "h", "i", "j", "k", "l", "m",
      "n", "o", "p", "q", "r", "s", "t", "u", "v", "w", "x", "y", "z">>

alphanums ==
    <<" ", "-">> \o string_digits \o string_ascii_uppercase \o <<"_">>
        \o string_ascii_lowercase

\* base.index(c), zero-based, for a character of the base
Index(base, c) == (CHOOSE i \in 1..Len(base) : base[i] = c) - 1

\* position of c in s, one-based (c occurs in s)
Pos(s, c) == CHOOSE i \in 1..Len(s) : s[i] = c

\* ord(c): the code point Python's str comparison orders characters by
Ord(c) ==
    IF c = " " THEN 32
    ELSE IF c = "-" THEN 45
    ELSE IF \E i \in 1..Len(string_digits) : string_digits[i] = c
         THEN 47 + Pos(string_digits, c)
    ELSE IF \E i \in 1..Len(string_ascii_uppercase) : string_ascii_uppercase[i] = c
         THEN 64 + Pos(string_ascii_uppercase, c)
    ELSE IF c = "_" THEN 95
    ELSE 96 + Pos(string_ascii_lowercase, c)

\* s1 < s2 on Python strings: lexicographic by code point, a proper prefix is less
StrLt(s1, s2) ==
    \E i \in 1..(Min(Len(s1), Len(s2)) + 1) :
        /\ \A j \in 1..(i - 1) : s1[j] = s2[j]
        /\ \/ i = Len(s1) + 1 /\ i <= Len(s2)
           \/ i <= Len(s1) /\ i <= Len(s2) /\ Ord(s1[i]) < Ord(s2[i])

StrGe(s1, s2) == ~StrLt(s1, s2)

\* the digits list numberToAlphanum's loop collects, least significant first
RECURSIVE DigitsOf(_, _)
DigitsOf(num, n) ==
    IF num > 0 THEN <<num % n>> \o DigitsOf(num \div n, n) ELSE <<>>

numberToAlphanum_unreversed(num) ==
    LET digits == DigitsOf(num, Len(alphanums))
    IN  [i \in 1..Len(digits) |-> alphanums[digits[i] + 1]]

numberToAlphanum(num) ==
    LET digits == PyReversed(DigitsOf(num, Len(alphanums)))
    IN  [i \in 1..Len(digits) |-> alphanums[digits[i] + 1]]

RECURSIVE alphanumToNumberFrom(_, _)
alphanumToNumberFrom(num, alphanum) ==
    IF alphanum = <<>> THEN num
    ELSE alphanumToNumberFrom(num * Len(alphanums) + Index(alphanums, Head(alphanum)),
                              Tail(alphanum))

alphanumToNumber(alphanum) == alphanumToNumberFrom(0, alphanum)

justify_alphanums(s1, s2) ==
    LET max_len == Max(Len(s1), Len(s2))
    IN  <<ljust(s1, max_len), ljust(s2, max_len)>>

alphanums_to_numbers(s1, s2) ==
    LET j == justify_alphanums(s1, s2)
    IN  <<alphanumToNumber(j[1]), alphanumToNumber(j[2])>>

----------------------------------------------------------------------------
(* ArithAlphanumeric.  max_len = 0 stands for the falsy values None and 0, *)
(* which the code treats alike.                                             *)

\* the constructor with __attrs_post_init__ (str is never None here)
ArithAlphanumeric(str, max_len) ==
    IF max_len # 0 /\ Len(str) > max_len
    THEN Raise("ValueError")
    ELSE IF \E i \in 1..Len(str) : ~(\E k \in 1..Len(alphanums) : alphanums[k] = str[i])
    THEN Raise("ValueError")
    ELSE Ok([str |-> str, max_len |-> max_len])

ArithAlphanumeric_new(self, str) == ArithAlphanumeric(str, self.max_len)

ArithAlphanumeric_add(self, other) ==
    IF other # 1
    THEN Raise("NotImplementedError")
    ELSE LET num == alphanumToNumber(self.str)
         IN  ArithAlphanumeric_new(self, numberToAlphanum(num + 1))

ArithAlphanumeric_lt(self, other) == StrLt(self.str, other.str)
ArithAlphanumeric_ge(self, other) == StrGe(self.str, other.str)
ArithAlphanumeric_eq(self, other) == self.str = other.str

\* [self.new(numberToAlphanum(s)) for s in split]: the first failing
\* construction ends the comprehension
MapNew(self, split) ==
    LET made == [i \in 1..Len(split) |-> ArithAlphanumeric_new(self, numberToAlphanum(split[i]))]
    IN  IF \E i \in 1..Len(made) : ~IsOk(made[i])
        THEN Raise("ValueError")
        ELSE Ok([i \in 1..Len(made) |-> made[i].val])

ArithAlphanumeric_range(self, other, count) ==
    LET n == alphanums_to_numbers(self.str, other.str)
        split == split_space(n[1], n[2], count)
    IN  IF ~IsOk(split) THEN split ELSE MapNew(self, split.val)

ArithAlphanumeric_sub(self, other) ==
    LET n == alphanums_to_numbers(self.str, other.str)
    IN  Ok(n[1] - n[2])

----------------------------------------------------------------------------
(* ArithUUID.  A key is [uuid, lowercase, uppercase], uuid the 128-bit     *)
(* integer of the UUID.                                                     *)
(*                                                                         *)
(* A Python int that may exceed TLC's integers is the record       *)
(* [hi, lo], the number hi * 2^127 + lo with |lo| far below 2^126: each    *)
(* number near a multiple of 2^127 has one such record, and sums,          *)
(* differences and comparisons of such numbers are exact.                   *)

Big(hi, lo) == [hi |-> hi, lo |-> lo]

\* a + b
BigAdd(a, b) == [hi |-> a.hi + b.hi, lo |-> a.lo + b.lo]

\* a - b
BigSub(a, b) == [hi |-> a.hi - b.hi, lo |-> a.lo - b.lo]

\* a < b
BigLt(a, b) == a.hi < b.hi \/ (a.hi = b.hi /\ a.lo < b.lo)

OptBool == {"None", "True", "False"}

\* _any_to_uuid on an int: UUID(int=v) raises ValueError unless
\* 0 <= v < 1 << 128
_any_to_uuid(v) ==
    IF ~BigLt(v, Big(0, 0)) /\ BigLt(v, Big(2, 0)) THEN Ok(v) ELSE Raise("ValueError")

\* attrs.evolve(self, uuid=i): the converter runs on the new field
ArithUUID_evolve(self, i) ==
    LET u == _any_to_uuid(i)
    IN  IF IsOk(u) THEN Ok([self EXCEPT !.uuid = u.val]) ELSE u

ArithUUID_add(self, other) == ArithUUID_evolve(self, BigAdd(self.uuid, other))

ArithUUID_sub_int(self, other) == ArithUUID_evolve(self, BigSub(self.uuid, other))

ArithUUID_sub_peer_rev(self, other) == Ok(BigSub(other.uuid, self.uuid))

ArithUUID_sub_peer(self, other) == Ok(BigSub(self.uuid, other.uuid))

ArithUUID_eq(self, other) == self.uuid = other.uuid

\* for keys below 2^126 (hi = 0), whose integers are their lo parts
ArithUUID_range(self, other, count) ==
    LET checkpoints == split_space(self.uuid.lo, other.uuid.lo, count)
    IN  IF ~IsOk(checkpoints) THEN checkpoints
        ELSE LET made == [i \in 1..Len(checkpoints.val) |->
                             ArithUUID_evolve(self, Big(0, checkpoints.val[i]))]
             IN  IF \E i \in 1..Len(made) : ~IsOk(made[i])
                 THEN Raise("ValueError")
                 ELSE Ok([i \in 1..Len(made) |-> made[i].val])

----------------------------------------------------------------------------
(* Vector: a tuple under the product order *)

\* safezip(a, b): the pairs, or ValueError on different lengths
safezip(a, b) ==
    IF Len(a) # Len(b)
    THEN Raise("ValueError")
    ELSE Ok([i \in 1..Len(a) |-> <<a[i], b[i]>>])

\* all(iterable) on a list of booleans
RECURSIVE all(_)
all(bs) == IF bs = <<>> THEN TRUE ELSE IF Head(bs) THEN all(Tail(bs)) ELSE FALSE

\* tuple.__lt__: the lexicographic order Vector overrides
RECURSIVE tuple_lt(_, _)
tuple_lt(self, other) ==
    IF other = <<>> THEN Ok(FALSE)
    ELSE IF self = <<>> THEN Ok(TRUE)
    ELSE IF Head(self) # Head(other) THEN Ok(Head(self) < Head(other))
    ELSE tuple_lt(Tail(self), Tail(other))

Vector_lt(self, other) ==
    LET z == safezip(self, other)
    IN  IF ~IsOk(z) THEN z ELSE Ok(all([i \in 1..Len(z.val) |-> z.val[i][1] < z.val[i][2]]))

Vector_le(self, other) ==
    LET z == safezip(self, other)
    IN  IF ~IsOk(z) THEN z ELSE Ok(all([i \in 1..Len(z.val) |-> z.val[i][1] <= z.val[i][2]]))

Vector_gt(self, other) ==
    LET z == safezip(self, other)
    IN  IF ~IsOk(z) THEN z ELSE Ok(all([i \in 1..Len(z.val) |-> z.val[i][1] > z.val[i][2]]))

Vector_ge(self, other) ==
    LET z == safezip(self, other)
    IN  IF ~IsOk(z) THEN z ELSE Ok(all([i \in 1..Len(z.val) |-> z.val[i][1] >= z.val[i][2]]))

Vector_eq(self, other) ==
    LET z == safezip(self, other)
    IN  IF ~IsOk(z) THEN z ELSE Ok(all([i \in 1..Len(z.val) |-> z.val[i][1] = z.val[i][2]]))

----------------------------------------------------------------------------
(* CaseInsensitiveDict.  A name is a str; an item is <<name, value>>.      *)

\* c.lower() on one character
LowerChar(c) ==
    IF \E i \in 1..Len(string_ascii_uppercase) : string_ascii_uppercase[i] = c
    THEN string_ascii_lowercase[Pos(string_ascii_uppercase, c)]
    ELSE c

\* key.lower()
lower(key) == [i \in 1..Len(key) |-> LowerChar(key[i])]

\* the names the map is exercised with
Names ==
    { <<"N", "a", "m", "e">>, <<"N", "A", "M", "E">>, <<"n", "a", "m", "e">>,
      <<"I", "d">>, <<"I", "D">>, <<"x">> }

Values == 0..MaxValue

\* d[k] = v on a function
Put(d, k, v) == [x \in DOMAIN d \cup {k} |-> IF x = k THEN v ELSE d[x]]

\* del d[k]
Del(d, k) == [x \in DOMAIN d \ {k} |-> d[x]]

\* dict(initial).items(): one item per distinct name, at the place of the
\* name's first occurrence, holding the value of its last occurrence
RECURSIVE dict_items(_, _)
dict_items(acc, initial) ==
    IF initial = <<>> THEN acc
    ELSE LET k == Head(initial)[1]
             v == Head(initial)[2]
         IN  IF \E i \in 1..Len(acc) : acc[i][1] = k
             THEN dict_items([i \in 1..Len(acc) |->
                                 IF acc[i][1] = k THEN <<k, v>> ELSE acc[i]],
                             Tail(initial))
             ELSE dict_items(Append(acc, <<k, v>>), Tail(initial))

\* {k.lower(): (k, v) for k, v in items}: a later item replaces an earlier
\* one under the same lower-cased name
RECURSIVE lower_comprehension(_, _)
lower_comprehension(d, items) ==
    IF items = <<>> THEN d
    ELSE lower_comprehension(Put(d, lower(Head(items)[1]), Head(items)),
                             Tail(items))

CaseInsensitiveDict_init(initial) ==
    lower_comprehension(<<>>, dict_items(<<>>, initial))

CaseInsensitiveDict_setitem_last(d, key, value) == Put(d, lower(key), <<key, value>>)

CaseInsensitiveDict_setitem(d, key, value) ==
    LET k == lower(key)
    IN  IF k \in DOMAIN d
        THEN Put(d, k, <<d[k][1], value>>)
        ELSE Put(d, k, <<key, value>>)

CaseInsensitiveDict_get_key(d, key) ==
    IF lower(key) \in DOMAIN d THEN Ok(d[lower(key)][1]) ELSE Raise("KeyError")

CaseInsensitiveDict_getitem(d, key) ==
    IF lower(key) \in DOMAIN d THEN Ok(d[lower(key)][2]) ELSE Raise("KeyError")

----------------------------------------------------------------------------
(* Inputs *)

Counts == 0..MaxCount

AlnumStrings == SeqsUpTo(Chars, MaxLen)

\* the keys the constructor accepts, with no maximum length (0) or with one
AlnumKeys ==
    {[str |-> s, max_len |-> m] : s \in AlnumStrings, m \in {0, MaxLen}}

\* the UUID integers 0 .. 2^128 - 1 within MaxOffset of the lowest, the
\* middle and the highest value
UUIDInts ==
    {Big(0, lo) : lo \in 0..MaxOffset}
        \cup {Big(1, lo) : lo \in (0 - MaxOffset)..MaxOffset}
        \cup {Big(2, lo) : lo \in (0 - MaxOffset)..(0 - 1)}

UUIDKeys == [uuid : UUIDInts, lowercase : OptBool, uppercase : {"None"}]

\* the UUID keys range() is exercised with: integers 0 .. MaxInt
LowUUIDKeys == [uuid : {Big(0, lo) : lo \in 0..MaxInt}, lowercase : OptBool, uppercase : {"None"}]

\* offsets n: small ones, and ones near +-2^127 and +-2^128
Offsets == {Big(hi, lo) : hi \in (0 - 2)..2, lo \in (0 - MaxOffset)..MaxOffset}

\* strings for the codec: the key strings, and each of them behind any one
\* symbol of the alphabet
CodecStrings ==
    AlnumStrings \cup {<<alphanums[i]>> \o s : i \in 1..Len(alphanums), s \in AlnumStrings}

Vectors == SeqsUpTo(VecVals, MaxArity)

Items == Names \X Values

----------------------------------------------------------------------------
(* Range splitting: split_space called directly, and through the keys'     *)
(* range methods                                                            *)

InitSplit ==
    /\ pc = "start"
    /\ \/ /\ op = "split_space"
          /\ args \in [start : MinInt..MaxInt, end : MinInt..MaxInt, count : Counts]
       \/ /\ op = "ArithUUID.range"
          /\ args \in [self : LowUUIDKeys, other : LowUUIDKeys, count : Counts]
       \/ /\ op = "ArithAlphanumeric.range"
          /\ args \in [self : AlnumKeys,
                       other : {k \in AlnumKeys : k.max_len = 0},
                       count : Counts]
    /\ result = NoResult
    /\ result2 = NoResult
    /\ dict = <<>>
    /\ first = <<>>

Call_split_space ==
    /\ pc = "start"
    /\ op = "split_space"
    /\ result' = split_space(args.start, args.end, args.count)
    /\ pc' = "done"
    /\ UNCHANGED <<op, args, result2, dict, first>>

Call_ArithUUID_range ==
    /\ pc = "start"
    /\ op = "ArithUUID.range"
    /\ result' = ArithUUID_range(args.self, args.other, args.count)
    /\ pc' = "done"
    /\ UNCHANGED <<op, args, result2, dict, first>>

Call_ArithAlphanumeric_range ==
    /\ pc = "start"
    /\ op = "ArithAlphanumeric.range"
    /\ result' = ArithAlphanumeric_range(args.self, args.other, args.count)
    /\ pc' = "done"
    /\ UNCHANGED <<op, args, result2, dict, first>>

NextSplit ==
    \/ Call_split_space
    \/ Call_ArithUUID_range
    \/ Call_ArithAlphanumeric_range

SpecSplit == InitSplit /\ [][NextSplit]_vars

----------------------------------------------------------------------------
(* Properties of split_space (under SpecSplit) *)

SplitDone == pc = "done" /\ op = "split_space"

\* floor((end - start + 1) / (count + 1))
StepOf(a) == (a.end - a.start + 1) \div (a.count + 1)

StrictlyIncreasing(s) == \A i \in 1..(Len(s) - 1) : s[i] < s[i + 1]

\* exactly n strictly increasing integers, all strictly between lo and hi
InteriorCheckpoints(r, lo, hi, n) ==
    /\ IsOk(r)
    /\ Len(r.val) = n
    /\ StrictlyIncreasing(r.val)
    /\ \A i \in 1..Len(r.val) : lo < r.val[i] /\ r.val[i] < hi

\* C1 as stated: for start < end and 0 <= count <= end - start, split_space
\* returns exactly count strictly increasing integers strictly between
\* start and end.
C1_Original ==
    (SplitDone /\ args.start < args.end /\ args.count <= args.end - args.start)
        => InteriorCheckpoints(result, args.start, args.end, args.count)

\* C1 amended: for start < end and 0 <= count < end - start, split_space
\* returns exactly count strictly increasing integers strictly between
\* start and end.
C1_InteriorCheckpoints ==
    (SplitDone /\ args.start < args.end /\ args.count < args.end - args.start)
        => InteriorCheckpoints(result, args.start, args.end, args.count)

C1_Witness ==
    /\ SplitDone
    /\ args.start < args.end
    /\ args.count = args.end - args.start - 1
    /\ args.count >= 2
    /\ IsOk(result)
    /\ Len(result.val) = args.count

\* C7: when count > end - start, split_space fails with an error and returns
\* no list; ArithUUID.range and ArithAlphanumeric.range fail the same way
\* when count exceeds the distance between the two bounds.
C7_TooManyCheckpointsFails ==
    pc = "done" =>
        /\ (op = "split_space" /\ args.count > args.end - args.start)
              => (result.err = "AssertionError" /\ result.val = <<>>)
        /\ (op = "ArithUUID.range" /\ args.count > args.other.uuid.lo - args.self.uuid.lo)
              => (result.err = "AssertionError" /\ result.val = <<>>)
        /\ (op = "ArithAlphanumeric.range"
              /\ args.count > alphanums_to_numbers(args.self.str, args.other.str)[2]
                                - alphanums_to_numbers(args.self.str, args.other.str)[1])
              => (result.err = "AssertionError" /\ result.val = <<>>)

C7_Witness ==
    /\ SplitDone
    /\ args.start < args.end
    /\ args.count > args.end - args.start
    /\ result.err = "AssertionError"

\* C8 as stated: for start < end and 1 <= count <= end - start, every
\* segment before the last has width exactly step and the final segment
\* (last checkpoint to end) has width at least step.
C8_Original ==
    (SplitDone /\ args.start < args.end /\ 1 <= args.count
        /\ args.count <= args.end - args.start)
        => /\ IsOk(result)
           /\ Len(result.val) >= 1 =>
                /\ result.val[1] - args.start = StepOf(args)
                /\ \A i \in 1..(Len(result.val) - 1) :
                       result.val[i + 1] - result.val[i] = StepOf(args)
                /\ args.end - result.val[Len(result.val)] >= StepOf(args)

\* C8 amended: for start < end and 1 <= count <= end - start, every segment
\* before the last has width exactly step and the final segment (last
\* checkpoint to end) has width at least step - 1.
C8_SegmentWidths ==
    (SplitDone /\ args.start < args.end /\ 1 <= args.count
        /\ args.count <= args.end - args.start)
        => /\ IsOk(result)
           /\ Len(result.val) >= 1 =>
                /\ result.val[1] - args.start = StepOf(args)
                /\ \A i \in 1..(Len(result.val) - 1) :
                       result.val[i + 1] - result.val[i] = StepOf(args)
                /\ args.end - result.val[Len(result.val)] >= StepOf(args) - 1

C8_Witness ==
    /\ SplitDone
    /\ args.start < args.end
    /\ args.count >= 2
    /\ IsOk(result)
    /\ Len(result.val) = args.count
    /\ StepOf(args) >= 2
    /\ args.end - result.val[Len(result.val)] = StepOf(args) - 1

\* C9: for start < end and 0 <= count <= end - start, the k-th element of
\* the returned list is start + k * floor((end - start + 1) / (count + 1));
\* split_space(0, 10, 3) is [2, 4, 6].
C9_KthCheckpoint ==
    (SplitDone /\ args.start < args.end /\ args.count <= args.end - args.start)
        => /\ IsOk(result)
           /\ \A k \in 1..Len(result.val) :
                  result.val[k] = args.start + k * StepOf(args)
           /\ (args.start = 0 /\ args.end = 10 /\ args.count = 3)
                  => result.val = <<2, 4, 6>>

C9_Witness ==
    /\ SplitDone
    /\ args.start = 0 /\ args.end = 10 /\ args.count = 3
    /\ IsOk(result)
    /\ result.val = <<2, 4, 6>>

----------------------------------------------------------------------------
(* Properties of ArithAlphanumeric.range (under SpecSplit) *)

\* C2: for keys a < b and a count that a.range(b, count) accepts, every
\* checkpoint c satisfies a < c < b under the keys' own comparison and
\* consecutive checkpoints are strictly increasing.
C2_CheckpointsInteriorOrdered ==
    (pc = "done" /\ op = "ArithAlphanumeric.range" /\ IsOk(result)
        /\ ArithAlphanumeric_lt(args.self, args.other))
        => /\ \A i \in 1..Len(result.val) :
                  /\ ArithAlphanumeric_lt(args.self, result.val[i])
                  /\ ArithAlphanumeric_lt(result.val[i], args.other)
           /\ \A i \in 1..(Len(result.val) - 1) :
                  ArithAlphanumeric_lt(result.val[i], result.val[i + 1])

----------------------------------------------------------------------------
(* Key arithmetic and the codec round trip *)

InitArith ==
    /\ pc = "start"
    /\ \/ /\ op = "ArithUUID.add"
          /\ args \in [self : UUIDKeys, other : Offsets]
       \/ /\ op = "ArithAlphanumeric.add"
          /\ args \in [self : AlnumKeys, other : {1, 2}]
       \/ /\ op = "codec"
          /\ args \in [alphanum : CodecStrings]
    /\ result = NoResult
    /\ result2 = NoResult
    /\ dict = <<>>
    /\ first = <<>>

\* u + n
Call_ArithUUID_add ==
    /\ pc = "start"
    /\ op = "ArithUUID.add"
    /\ result' = ArithUUID_add(args.self, args.other)
    /\ pc' = "added"
    /\ UNCHANGED <<op, args, result2, dict, first>>

\* (u + n) - u
Call_ArithUUID_sub_peer ==
    /\ pc = "added"
    /\ IsOk(result)
    /\ result2' = ArithUUID_sub_peer(result.val, args.self)
    /\ pc' = "sub_peer"
    /\ UNCHANGED <<op, args, result, dict, first>>

\* (u + n) - n
Call_ArithUUID_sub_int ==
    /\ pc = "added"
    /\ IsOk(result)
    /\ result2' = ArithUUID_sub_int(result.val, args.other)
    /\ pc' = "sub_int"
    /\ UNCHANGED <<op, args, result, dict, first>>

\* s + other
Call_ArithAlphanumeric_add ==
    /\ pc = "start"
    /\ op = "ArithAlphanumeric.add"
    /\ result' = ArithAlphanumeric_add(args.self, args.other)
    /\ pc' = "done"
    /\ UNCHANGED <<op, args, result2, dict, first>>

\* n = alphanumToNumber(s)
Call_alphanumToNumber ==
    /\ pc = "start"
    /\ op = "codec"
    /\ result' = Ok(alphanumToNumber(args.alphanum))
    /\ pc' = "decoded"
    /\ UNCHANGED <<op, args, result2, dict, first>>

\* t = numberToAlphanum(n)
Call_numberToAlphanum ==
    /\ pc = "decoded"
    /\ result2' = Ok(numberToAlphanum(result.val))
    /\ pc' = "encoded"
    /\ UNCHANGED <<op, args, result, dict, first>>

\* alphanumToNumber(t)
Call_alphanumToNumber_again ==
    /\ pc = "encoded"
    /\ result' = Ok(alphanumToNumber(result2.val))
    /\ pc' = "done"
    /\ UNCHANGED <<op, args, result2, dict, first>>

NextArith ==
    \/ Call_ArithUUID_add
    \/ Call_ArithUUID_sub_peer
    \/ Call_ArithUUID_sub_int
    \/ Call_ArithAlphanumeric_add
    \/ Call_alphanumToNumber
    \/ Call_numberToAlphanum
    \/ Call_alphanumToNumber_again

SpecArith == InitArith /\ [][NextArith]_vars

----------------------------------------------------------------------------
(* Properties of ArithUUID arithmetic (under SpecArith) *)

UUIDRoundTrips ==
    /\ pc = "sub_peer" => (IsOk(result2) /\ result2.val = args.other)
    /\ pc = "sub_int" => (IsOk(result2) /\ ArithUUID_eq(result2.val, args.self))

\* C3 as stated: for every UUID key u and every integer n, u.add(n) returns
\* a key with no error, (u.add(n)).subtract(u) == n and
\* u.add(n).subtract(n) == u.
C3_Original ==
    /\ (pc = "added" /\ op = "ArithUUID.add") => IsOk(result)
    /\ UUIDRoundTrips

\* C3 amended: u.add(n) returns a key exactly when u's integer plus n is
\* within the identifier's bit range and fails with a ValueError otherwise;
\* whenever it returns, (u.add(n)).subtract(u) == n and
\* u.add(n).subtract(n) == u, with no error.
C3_AddSubtractInRange ==
    /\ (pc = "added" /\ op = "ArithUUID.add") =>
          LET hi == args.self.uuid.hi + args.other.hi
              lo == args.self.uuid.lo + args.other.lo
          IN  IF (hi = 0 /\ lo >= 0) \/ hi = 1 \/ (hi = 2 /\ lo < 0)
              THEN IsOk(result)
              ELSE result.err = "ValueError"
    /\ UUIDRoundTrips

C3_Witness ==
    /\ pc = "sub_peer"
    /\ args.other.hi < 0
    /\ args.self.uuid = Big(2, 0 - 1)
    /\ IsOk(result2)
    /\ result2.val = args.other

----------------------------------------------------------------------------
(* Properties of the codec and of ArithAlphanumeric.add (under SpecArith) *)

\* C6: for every string s over the alphabet, the empty string and strings
\* of or beginning with the lowest symbol included,
\* decode(encode(decode(s))) == decode(s).
C6_CodecRoundTrip ==
    (pc = "done" /\ op = "codec")
        => (IsOk(result) /\ result.val = alphanumToNumber(args.alphanum))

C6_Witness ==
    /\ pc = "done"
    /\ op = "codec"
    /\ Len(args.alphanum) >= 2
    /\ args.alphanum[1] = " "
    /\ args.alphanum[2] # " "
    /\ result2.val = Tail(args.alphanum)
    /\ result.val = alphanumToNumber(args.alphanum)

\* C10: s.add(1) either fails with an error or returns a key strictly
\* greater than s under the keys' own comparison.
C10_IncrementIsGreater ==
    (pc = "done" /\ op = "ArithAlphanumeric.add" /\ args.other = 1)
        => (~IsOk(result) \/ ArithAlphanumeric_lt(args.self, result.val))

----------------------------------------------------------------------------
(* Vector comparisons *)

InitVector ==
    /\ pc = "start"
    /\ op = "Vector"
    /\ args \in [self : Vectors, other : Vectors]
    /\ result = NoResult
    /\ result2 = NoResult
    /\ dict = <<>>
    /\ first = <<>>

Call_Vector_lt ==
    /\ pc = "start"
    /\ result' = Vector_lt(args.self, args.other)
    /\ pc' = "lt"
    /\ UNCHANGED <<op, args, result2, dict, first>>

Call_Vector_le ==
    /\ pc = "start"
    /\ result' = Vector_le(args.self, args.other)
    /\ pc' = "le"
    /\ UNCHANGED <<op, args, result2, dict, first>>

Call_Vector_gt ==
    /\ pc = "start"
    /\ result' = Vector_gt(args.self, args.other)
    /\ pc' = "gt"
    /\ UNCHANGED <<op, args, result2, dict, first>>

Call_Vector_ge ==
    /\ pc = "start"
    /\ result' = Vector_ge(args.self, args.other)
    /\ pc' = "ge"
    /\ UNCHANGED <<op, args, result2, dict, first>>

Call_Vector_eq ==
    /\ pc = "start"
    /\ result' = Vector_eq(args.self, args.other)
    /\ pc' = "eq"
    /\ UNCHANGED <<op, args, result2, dict, first>>

NextVector ==
    \/ Call_Vector_lt
    \/ Call_Vector_le
    \/ Call_Vector_gt
    \/ Call_Vector_ge
    \/ Call_Vector_eq

SpecVector == InitVector /\ [][NextVector]_vars

\* C5: for vectors a, b of equal arity each of a < b, a <= b, a > b, a >= b,
\* a == b holds exactly when the scalar relation holds for every component
\* pair; for a = (1, 5), b = (2, 5), a < b is false and a <= b is true.
C5_ProductOrder ==
    (op = "Vector" /\ pc # "start" /\ Len(args.self) = Len(args.other)) =>
        LET a == args.self
            b == args.other
            I == 1..Len(a)
        IN  /\ IsOk(result)
            /\ pc = "lt" => (result.val <=> \A i \in I : a[i] < b[i])
            /\ pc = "le" => (result.val <=> \A i \in I : a[i] <= b[i])
            /\ pc = "gt" => (result.val <=> \A i \in I : a[i] > b[i])
            /\ pc = "ge" => (result.val <=> \A i \in I : a[i] >= b[i])
            /\ pc = "eq" => (result.val <=> \A i \in I : a[i] = b[i])
            /\ (a = <<1, 5>> /\ b = <<2, 5>> /\ pc = "lt") => ~result.val
            /\ (a = <<1, 5>> /\ b = <<2, 5>> /\ pc = "le") => result.val

\* equal-arity vectors for which neither a <= b nor b <= a holds
C5_Witness ==
    /\ op = "Vector"
    /\ pc = "le"
    /\ Len(args.self) = Len(args.other)
    /\ IsOk(result)
    /\ ~result.val
    /\ ~Vector_le(args.other, args.self).val

----------------------------------------------------------------------------
(* The case-insensitive map: construction, then any sequence of inserts,   *)
(* removals and lookups                                                     *)

\* casing of the first item of the initial list under each lower-cased name
RECURSIVE FirstCasing(_, _)
FirstCasing(f, initial) ==
    IF initial = <<>> THEN f
    ELSE LET k == Head(initial)[1]
         IN  FirstCasing(IF lower(k) \in DOMAIN f THEN f ELSE Put(f, lower(k), k),
                         Tail(initial))

InitDict ==
    /\ pc = "constructed"
    /\ op = "__init__"
    /\ args \in [initial : SeqsUpTo(Items, MaxInitial)]
    /\ dict = CaseInsensitiveDict_init(args.initial)
    /\ first = FirstCasing(<<>>, args.initial)
    /\ result = NoResult
    /\ result2 = NoResult

\* d[key] = value
insert(key, value) ==
    /\ dict' = CaseInsensitiveDict_setitem(dict, key, value)
    /\ first' = IF lower(key) \in DOMAIN dict THEN first ELSE Put(first, lower(key), key)
    /\ result' = Ok(<<>>)
    /\ op' = "insert"
    /\ args' = [key |-> key, value |-> value]
    /\ pc' = "called"
    /\ UNCHANGED result2

\* del d[key]
remove(key) ==
    /\ IF lower(key) \in DOMAIN dict
       THEN /\ dict' = Del(dict, lower(key))
            /\ first' = Del(first, lower(key))
            /\ result' = Ok(<<>>)
       ELSE /\ result' = Raise("KeyError")
            /\ UNCHANGED <<dict, first>>
    /\ op' = "remove"
    /\ args' = [key |-> key]
    /\ pc' = "called"
    /\ UNCHANGED result2

\* d.get_key(key)
canonical_key(key) ==
    /\ result' = CaseInsensitiveDict_get_key(dict, key)
    /\ op' = "canonical_key"
    /\ args' = [key |-> key]
    /\ pc' = "called"
    /\ UNCHANGED <<dict, first, result2>>

\* d[key]
lookup(key) ==
    /\ result' = CaseInsensitiveDict_getitem(dict, key)
    /\ op' = "lookup"
    /\ args' = [key |-> key]
    /\ pc' = "called"
    /\ UNCHANGED <<dict, first, result2>>

NextDict ==
    \/ \E key \in Names, value \in Values : insert(key, value)
    \/ \E key \in Names : remove(key)
    \/ \E key \in Names : canonical_key(key)
    \/ \E key \in Names : lookup(key)

SpecDict == InitDict /\ [][NextDict]_vars

\* C4: after construction from an initial item list and any sequence of
\* insert and remove, canonical_key(k) for a present name returns the casing
\* used by the first insertion of that name since it was last absent.
C4_CanonicalKeyIsFirstCasing ==
    (op = "canonical_key" /\ IsOk(result))
        => result.val = first[lower(args.key)]

====
